---- MODULE Spec2Model ----
(***************************************************************************)
(* Model of httpexpect's Request (src/request.go): the fluent request      *)
(* builder, its sticky failure chain, the body / Content-Type conflict     *)
(* detection, the multipart accumulator and the round trip of Expect.      *)
(***************************************************************************)
EXTENDS Integers, Sequences, FiniteSets, TLC

(* ------------------------------ bounds -------------------------------- *)

\* number of calls made on one Request in a behaviour of Spec
MaxCalls == 4
\* number of calls made on one Request in a behaviour of SpecAll
MaxCallsAll == 2
\* number of calls made on one Request in a behaviour of SpecPath
MaxCallsPath == 2
\* number of calls made on one Request in a behaviour of SpecQuery
MaxCallsQuery == 3

(* --------------------------- program constants ------------------------ *)

JSONType == "application/json; charset=utf-8"
TextType == "text/plain; charset=utf-8"
FormType == "application/x-www-form-urlencoded"
MultipartType == "multipart/form-data"
\* multipart.Writer.FormDataContentType(): the type with the writer's boundary
FormDataContentType == "multipart/form-data; boundary=B"

(* ------------------------------ state --------------------------------- *)

VARIABLES
    failed,      \* chain: failbit
    msg,         \* chain: the first failure's message
    client,      \* config.Client
    dialer,      \* config.WebsocketDialer
    path,        \* r.path, a sequence of symbols
    query,       \* r.query (url.Values)
    form,        \* r.form (url.Values)
    formbuf,     \* r.formbuf: what the multipart writer has written
    multipart,   \* r.multipart # nil
    bodySetter,  \* r.bodySetter
    typeSetter,  \* r.typeSetter
    forceType,   \* r.forceType
    wsUpgrade,   \* r.wsUpgrade
    matchers,    \* r.matchers
    header,      \* r.http.Header
    host,        \* r.http.Host
    proto,       \* <<r.http.ProtoMajor, r.http.ProtoMinor>>
    body,        \* r.http.Body
    contentLength, \* r.http.ContentLength
    url,         \* r.http.URL: scheme, path, rawQuery
    resp,        \* what the last Expect returned
    dials,       \* number of WebsocketDialer.Dial invocations
    dos,         \* number of Client.Do invocations
    lastOp,      \* the method called last
    upgradeCalled, \* WithWebsocketUpgrade has been called
    bodyCalled,  \* a body-setting method has been called
    calls,       \* number of calls made so far
    budget,      \* number of calls the test makes on the Request
    args         \* the arguments NewRequest was called with

reqVars == <<failed, msg, client, dialer, path, query, form, formbuf, multipart,
             bodySetter, typeSetter, forceType, wsUpgrade, matchers, header,
             host, proto, body, contentLength, url>>

vars == <<failed, msg, client, dialer, path, query, form, formbuf, multipart,
          bodySetter, typeSetter, forceType, wsUpgrade, matchers, header,
          host, proto, body, contentLength, url, resp, dials, dos, lastOp,
          upgradeCalled, bodyCalled, calls, budget, args>>

\* the Request as one value, so that the methods compose as they do in Go
R == [failed |-> failed, msg |-> msg, client |-> client, dialer |-> dialer,
      path |-> path, query |-> query, form |-> form, formbuf |-> formbuf,
      multipart |-> multipart, bodySetter |-> bodySetter,
      typeSetter |-> typeSetter, forceType |-> forceType,
      wsUpgrade |-> wsUpgrade, matchers |-> matchers, header |-> header,
      host |-> host, proto |-> proto, body |-> body,
      contentLength |-> contentLength, url |-> url]

Store(r) ==
    /\ failed' = r.failed
    /\ msg' = r.msg
    /\ client' = r.client
    /\ dialer' = r.dialer
    /\ path' = r.path
    /\ query' = r.query
    /\ form' = r.form
    /\ formbuf' = r.formbuf
    /\ multipart' = r.multipart
    /\ bodySetter' = r.bodySetter
    /\ typeSetter' = r.typeSetter
    /\ forceType' = r.forceType
    /\ wsUpgrade' = r.wsUpgrade
    /\ matchers' = r.matchers
    /\ header' = r.header
    /\ host' = r.host
    /\ proto' = r.proto
    /\ body' = r.body
    /\ contentLength' = r.contentLength
    /\ url' = r.url

(* ------------------------------ chain --------------------------------- *)

NoMsg == [kind |-> "none", names |-> {}]

\* a failure message: its kind and the names (setters, types, keys) it cites
Message(kind, names) == [kind |-> kind, names |-> names]

\* chain.fail: only the first failure is recorded
fail(r, m) == IF r.failed THEN r ELSE [r EXCEPT !.failed = TRUE, !.msg = m]

(* ---------------------------- url.Values ------------------------------ *)

Keys == {"a", "b"}
KeyOrder == <<"a", "b">>
EmptyValues == [k \in Keys |-> <<>>]
NilValues == [nil |-> TRUE, v |-> EmptyValues]

\* make(url.Values) when the map is nil
Made(m) == IF m.nil THEN [nil |-> FALSE, v |-> EmptyValues] ELSE m

\* m[k] = append(m[k], vs...) for every k of f
AppendValues(m, f) ==
    [nil |-> FALSE, v |-> [k \in Keys |-> Made(m).v[k] \o f[k]]]

RECURSIVE EncodeFrom(_, _)
EncodeFrom(v, i) ==
    IF i > Len(KeyOrder) THEN <<>>
    ELSE [j \in 1..Len(v[KeyOrder[i]]) |-> <<KeyOrder[i], v[KeyOrder[i]][j]>>]
         \o EncodeFrom(v, i + 1)

\* url.Values.Encode: the key=value pairs, keys in sorted order
Encode(m) == EncodeFrom(m.v, 1)

(* ----------------------- body and Content-Type ------------------------ *)

NoBody == [rd |-> "nil", data |-> 0, s |-> <<>>]

ContentTypeOf(r) ==
    IF r.header["Content-Type"] = <<>> THEN "" ELSE Head(r.header["Content-Type"])

\* setType without the forceType test
setTypeIgnoresForce(r, newSetter, newType, overwrite) ==
    IF /\ ~overwrite
       /\ ContentTypeOf(r) # ""
       /\ ContentTypeOf(r) # newType
    THEN fail(r, Message("type",
              {ContentTypeOf(r), r.typeSetter, newType, newSetter}))
    ELSE [r EXCEPT !.typeSetter = newSetter,
                   !.header["Content-Type"] = <<newType>>]

\* setType without the comparison with the previous type
setTypeNoConflict(r, newSetter, newType, overwrite) ==
    IF r.forceType THEN r
    ELSE [r EXCEPT !.typeSetter = newSetter,
                   !.header["Content-Type"] = <<newType>>]

setType(r, newSetter, newType, overwrite) ==
    IF r.forceType THEN r
    ELSE IF /\ ~overwrite
            /\ ContentTypeOf(r) # ""
            /\ ContentTypeOf(r) # newType
         THEN fail(r, Message("type",
                   {ContentTypeOf(r), r.typeSetter, newType, newSetter}))
         ELSE [r EXCEPT !.typeSetter = newSetter,
                        !.header["Content-Type"] = <<newType>>]

\* setBody without the test of r.bodySetter
setBodyOverwrites(r, setter, reader, len, overwrite) ==
    IF reader = NoBody
    THEN [r EXCEPT !.body = reader, !.contentLength = 0, !.bodySetter = setter]
    ELSE [r EXCEPT !.body = reader, !.contentLength = len, !.bodySetter = setter]

\* reader = NoBody stands for a nil io.Reader
setBody(r, setter, reader, len, overwrite) ==
    IF ~overwrite /\ r.bodySetter # ""
    THEN fail(r, Message("body", {r.bodySetter, setter}))
    ELSE IF reader = NoBody
         THEN [r EXCEPT !.body = NoBody, !.contentLength = 0,
                        !.bodySetter = setter]
         ELSE [r EXCEPT !.body = reader, !.contentLength = len,
                        !.bodySetter = setter]

(* ------------------------- path interpolation ------------------------- *)

\* A path is a sequence of symbols: literal pieces ("/", "u", "7", ...),
\* placeholders ("{id}", "{ID}", "{n}") and "{", a brace that is never closed.

PhName(sym) ==
    CASE sym = "{id}" -> "id"
      [] sym = "{ID}" -> "ID"
      [] sym = "{n}" -> "n"
      [] OTHER -> ""

IsPlaceholder(sym) == PhName(sym) # ""

\* interpol.WithFunc returns an error for a template with an unbalanced brace
Malformed(p) == \E i \in 1..Len(p) : p[i] = "{"

ToLower(name) == IF name = "ID" THEN "id" ELSE name

\* a comparison of the names that minds the letter case
EqualFoldExact(k, key) == k = key

\* strings.EqualFold
EqualFold(k, key) == ToLower(k) = ToLower(key)

\* a value handed to NewRequest / WithPath: nil, or its fmt.Sprint text
NilValue == [nil |-> TRUE, text |-> <<>>]
Value(text) == [nil |-> FALSE, text |-> text]

\* the callback of NewRequest, applied to the placeholders of template[i..]
RECURSIVE NewRequestFrom(_, _, _, _)
NewRequestFrom(template, pathargs, i, n) ==
    IF i > Len(template) THEN [path |-> <<>>, nilArg |-> FALSE]
    ELSE IF ~IsPlaceholder(template[i])
    THEN LET rest == NewRequestFrom(template, pathargs, i + 1, n)
         IN  [rest EXCEPT !.path = <<template[i]>> \o @]
    ELSE LET rest == NewRequestFrom(template, pathargs, i + 1, n + 1)
         IN  IF n < Len(pathargs)
             THEN IF pathargs[n + 1].nil
                  THEN [rest EXCEPT !.nilArg = TRUE]
                  ELSE [rest EXCEPT !.path = pathargs[n + 1].text \o @]
             ELSE [rest EXCEPT !.path = <<template[i]>> \o @]

\* the callback of WithPath, applied to the placeholders of p[i..]
RECURSIVE WithPathFrom(_, _, _, _)
WithPathFrom(p, key, value, i) ==
    IF i > Len(p) THEN [path |-> <<>>, ok |-> FALSE, nilArg |-> FALSE]
    ELSE LET rest == WithPathFrom(p, key, value, i + 1)
         IN  IF IsPlaceholder(p[i]) /\ EqualFold(PhName(p[i]), key)
             THEN IF value.nil
                  THEN [rest EXCEPT !.nilArg = TRUE]
                  ELSE [rest EXCEPT !.path = value.text \o @, !.ok = TRUE]
             ELSE [rest EXCEPT !.path = <<p[i]>> \o @]

\* chain.fail under a condition
failIf(cond, r, m) == IF cond THEN fail(r, m) ELSE r

\* WithPath without the test of ok
WithPathSetUnchecked(r, key, res) ==
    [failIf(res.nilArg, r, Message("nil", {key})) EXCEPT !.path = res.path]

\* what WithPath does once interpol.WithFunc has returned res without error
WithPathSet(r, key, res) ==
    failIf(~res.ok,
           [failIf(res.nilArg, r, Message("nil", {key})) EXCEPT !.path = res.path],
           Message("key", {key}))

WithPath(r, key, value) ==
    IF r.failed THEN r
    ELSE IF Malformed(r.path)
    THEN fail(r, Message("interpol", {}))
    ELSE WithPathSet(r, key, WithPathFrom(r.path, key, value, 1))

\* for k, v := range m { r.WithPath(k, v) }, in the order pairs
RECURSIVE WithPathEach(_, _)
WithPathEach(r, pairs) ==
    IF pairs = <<>> THEN r
    ELSE WithPathEach(WithPath(r, pairs[1][1], pairs[1][2]), Tail(pairs))

\* object: nil, a value canonMap rejects, or a map given as the sequence of
\* its pairs in the order the range loop visits them
WithPathObject(r, object) ==
    IF r.failed THEN r
    ELSE IF object.kind = "nil" THEN r
    ELSE IF object.kind = "invalid" THEN fail(r, Message("canon", {}))
    ELSE WithPathEach(r, object.pairs)

\* concatPaths
TrimSuffix(a) == IF a # <<>> /\ a[Len(a)] = "/" THEN SubSeq(a, 1, Len(a) - 1) ELSE a
TrimPrefix(b) == IF b # <<>> /\ b[1] = "/" THEN Tail(b) ELSE b

\* concatPaths without the TrimSuffix of a
concatPathsKeepsSuffix(a, b) ==
    IF a = <<>> THEN b
    ELSE IF b = <<>> THEN a
    ELSE a \o <<"/">> \o TrimPrefix(b)

concatPaths(a, b) ==
    IF a = <<>> THEN b
    ELSE IF b = <<>> THEN a
    ELSE TrimSuffix(a) \o <<"/">> \o TrimPrefix(b)

(* --------------------------- conversions ------------------------------ *)

\* fmt.Sprint of a scalar value
Sprint(value) == CASE value = 1 -> "1" [] value = 2 -> "2" [] OTHER -> "0"

\* json.Marshal / json.MarshalIndent: an object is a number of members, or
\* Unmarshalable; the result is its encoding's length
Unmarshalable == 0 - 1
Marshal(object) ==
    IF object = Unmarshalable THEN [ok |-> FALSE, len |-> 0]
    ELSE [ok |-> TRUE, len |-> 2 + 4 * object]
MarshalIndent(object) ==
    IF object = Unmarshalable THEN [ok |-> FALSE, len |-> 0]
    ELSE [ok |-> TRUE, len |-> 2 + 10 * object]

\* a []byte is nil or has a length
NilBytes == 0 - 1

Reader(kind, data) == [rd |-> kind, data |-> data, s |-> <<>>]

\* http.CanonicalHeaderKey
CanonicalHeaderKey(k) ==
    CASE k = "content-type" -> "Content-Type"
      [] k = "host" -> "Host"
      [] OTHER -> k

\* (*http.Request).ProtoAtLeast
ProtoAtLeast(r, major, minor) ==
    \/ r.proto[1] > major
    \/ r.proto[1] = major /\ r.proto[2] >= minor

(* ----------------------- configuration methods ------------------------ *)

WithMatcher(r, matcher) == [r EXCEPT !.matchers = Append(@, matcher)]

WithClient(r, c) ==
    IF r.failed THEN r
    ELSE IF c = "nil" THEN fail(r, Message("nil client", {"WithClient"}))
    ELSE [r EXCEPT !.client = [kind |-> c, transport |-> "default"]]

WithHandler(r, handler) ==
    IF r.failed THEN r
    ELSE IF handler = "nil" THEN fail(r, Message("nil handler", {"WithHandler"}))
    ELSE IF r.client.kind = "http.Client"
         THEN [r EXCEPT !.client.transport = handler]
         ELSE [r EXCEPT !.client = [kind |-> "http.Client", transport |-> handler]]

WithWebsocketUpgrade(r) ==
    IF r.failed THEN r ELSE [r EXCEPT !.wsUpgrade = TRUE]

WithWebsocketDialer(r, d) ==
    IF r.failed THEN r
    ELSE IF d = "nil"
         THEN fail(r, Message("nil dialer", {"WithWebsocketDialer"}))
    ELSE [r EXCEPT !.dialer = d]

\* WithQuery with url.Values.Set in the place of Add
WithQuerySets(r, key, value) ==
    IF r.failed THEN r
    ELSE [r EXCEPT !.query =
            [nil |-> FALSE, v |-> [Made(@).v EXCEPT ![key] = <<Sprint(value)>>]]]

WithQuery(r, key, value) ==
    IF r.failed THEN r
    ELSE [r EXCEPT !.query =
            AppendValues(@, [k \in Keys |-> IF k = key THEN <<Sprint(value)>> ELSE <<>>])]

\* object: nil, a value the encoder rejects, or a map / struct given as the
\* url.Values q the encoder makes of it
WithQueryObject(r, object) ==
    IF r.failed THEN r
    ELSE IF object.kind = "nil" THEN r
    ELSE IF object.kind = "invalid" THEN fail(r, Message("encode", {}))
    ELSE [r EXCEPT !.query = AppendValues(@, object.q)]

\* qs: a query string url.ParseQuery rejects, or one given as the url.Values
\* it parses to
WithQueryString(r, qs) ==
    IF r.failed THEN r
    ELSE IF qs.kind = "invalid" THEN fail(r, Message("parse", {}))
    ELSE [r EXCEPT !.query = AppendValues(@, qs.q)]

\* urlStr: a string url.Parse rejects, or one given as the URL it parses to
WithURL(r, urlStr) ==
    IF r.failed THEN r
    ELSE IF urlStr.kind = "invalid" THEN fail(r, Message("parse", {}))
    ELSE [r EXCEPT !.url = urlStr.u]

\* WithHeader that never deletes the previous Content-Type
WithHeaderAppends(r, k, v) ==
    IF r.failed THEN r
    ELSE IF CanonicalHeaderKey(k) = "Host" THEN [r EXCEPT !.host = v]
    ELSE IF CanonicalHeaderKey(k) = "Content-Type"
    THEN [r EXCEPT !.forceType = TRUE,
                   !.typeSetter = "WithHeader",
                   !.header["Content-Type"] = Append(@, v)]
    ELSE [r EXCEPT !.header[CanonicalHeaderKey(k)] = Append(@, v)]

WithHeader(r, k, v) ==
    IF r.failed THEN r
    ELSE IF CanonicalHeaderKey(k) = "Host" THEN [r EXCEPT !.host = v]
    ELSE IF CanonicalHeaderKey(k) = "Content-Type"
    THEN LET r1 == IF ~r.forceType
                   THEN [r EXCEPT !.header["Content-Type"] = <<>>]
                   ELSE r
         IN  [r1 EXCEPT !.forceType = TRUE,
                        !.typeSetter = "WithHeader",
                        !.header["Content-Type"] = Append(@, v)]
    ELSE [r EXCEPT !.header[CanonicalHeaderKey(k)] = Append(@, v)]

\* for k, v := range headers { r.WithHeader(k, v) }, in the order pairs
RECURSIVE WithHeaderEach(_, _)
WithHeaderEach(r, pairs) ==
    IF pairs = <<>> THEN r
    ELSE WithHeaderEach(WithHeader(r, pairs[1][1], pairs[1][2]), Tail(pairs))

WithHeaders(r, pairs) ==
    IF r.failed THEN r ELSE WithHeaderEach(r, pairs)

\* (*http.Request).AddCookie: the Cookie header is one "; "-joined value
WithCookie(r, k, v) ==
    IF r.failed THEN r
    ELSE [r EXCEPT !.header["Cookie"] =
            IF @ = <<>> THEN << <<k, v>> >> ELSE <<@[1] \o <<k, v>> >>]

RECURSIVE WithCookieEach(_, _)
WithCookieEach(r, pairs) ==
    IF pairs = <<>> THEN r
    ELSE WithCookieEach(WithCookie(r, pairs[1][1], pairs[1][2]), Tail(pairs))

WithCookies(r, pairs) ==
    IF r.failed THEN r ELSE WithCookieEach(r, pairs)

\* (*http.Request).SetBasicAuth sets the Authorization header
WithBasicAuth(r, username, password) ==
    IF r.failed THEN r
    ELSE [r EXCEPT !.header["Authorization"] = << <<username, password>> >>]

\* p: a version http.ParseHTTPVersion rejects, or <<major, minor>>
WithProto(r, p) ==
    IF r.failed THEN r
    ELSE IF p = <<>> THEN fail(r, Message("proto", {}))
    ELSE [r EXCEPT !.proto = p]

(* --------------------------- body methods ----------------------------- *)

\* reader: "nil" or the name of an io.Reader
WithChunked(r, reader) ==
    IF r.failed THEN r
    ELSE IF ~ProtoAtLeast(r, 1, 1) THEN fail(r, Message("chunked", {}))
    ELSE setBody(r, "WithChunked",
                 IF reader = "nil" THEN NoBody ELSE Reader("chunked", 0),
                 0 - 1, FALSE)

WithJSONPretty(r, object) ==
    IF r.failed THEN r
    ELSE IF ~MarshalIndent(object).ok THEN fail(r, Message("marshal", {}))
    ELSE setBody(setType(r, "WithJSON", JSONType, FALSE),
                 "WithJSON", Reader("jsonIndent", object),
                 MarshalIndent(object).len, FALSE)

WithBytes(r, b) ==
    IF r.failed THEN r
    ELSE IF b = NilBytes THEN setBody(r, "WithBytes", NoBody, 0, FALSE)
    ELSE setBody(r, "WithBytes", Reader("bytes", b), b, FALSE)

WithText(r, s) ==
    IF r.failed THEN r
    ELSE setBody(setType(r, "WithText", TextType, FALSE),
                 "WithText", Reader("text", s), s, FALSE)

WithJSON(r, object) ==
    IF r.failed THEN r
    ELSE IF ~Marshal(object).ok THEN fail(r, Message("marshal", {}))
    ELSE setBody(setType(r, "WithJSON", JSONType, FALSE),
                 "WithJSON", Reader("json", object), Marshal(object).len, FALSE)

(* ------------------------ forms and multipart ------------------------- *)

\* multipart.Writer.WriteField
WriteField(r, k, v) ==
    [r EXCEPT !.formbuf = Append(@, [t |-> "field", k |-> k, v |-> v])]

\* the loop over the keys of f without the sort, the map yielding them in
\* descending order
RECURSIVE WriteFieldsFromUnsorted(_, _, _)
WriteFieldsFromUnsorted(r, f, i) ==
    IF i > Len(KeyOrder) THEN r
    ELSE IF f[KeyOrder[Len(KeyOrder) + 1 - i]] = <<>>
    THEN WriteFieldsFromUnsorted(r, f, i + 1)
    ELSE WriteFieldsFromUnsorted(
             WriteField(r, KeyOrder[Len(KeyOrder) + 1 - i],
                        f[KeyOrder[Len(KeyOrder) + 1 - i]][1]), f, i + 1)

\* the loop over the sorted keys of f, from KeyOrder[i] on
RECURSIVE WriteFieldsFrom(_, _, _)
WriteFieldsFrom(r, f, i) ==
    IF i > Len(KeyOrder) THEN r
    ELSE IF f[KeyOrder[i]] = <<>> THEN WriteFieldsFrom(r, f, i + 1)
    ELSE WriteFieldsFrom(WriteField(r, KeyOrder[i], f[KeyOrder[i]][1]), f, i + 1)

\* r.form[k] = append(r.form[k], v...) for every k of f
AddForm(r, f) == [r EXCEPT !.form = AppendValues(@, f)]

\* object: a value form.EncodeToValues rejects, or one given as the
\* url.Values f it encodes to
WithForm(r, object) ==
    IF r.failed THEN r
    ELSE IF object.kind = "invalid" THEN fail(r, Message("encode", {}))
    ELSE IF r.multipart
    THEN WriteFieldsFrom(setType(r, "WithForm", MultipartType, FALSE),
                         object.q, 1)
    ELSE AddForm(setType(r, "WithForm", FormType, FALSE), object.q)

WithFormField(r, key, value) ==
    IF r.failed THEN r
    ELSE IF r.multipart
    THEN WriteField(setType(r, "WithFormField", MultipartType, FALSE),
                    key, Sprint(value))
    ELSE AddForm(setType(r, "WithFormField", FormType, FALSE),
                 [k \in Keys |-> IF k = key THEN <<Sprint(value)>> ELSE <<>>])

\* multipart.Writer.CreateFormFile and the io.Copy into the part
WriteFile(r, key, content) ==
    [r EXCEPT !.formbuf = Append(@, [t |-> "file", k |-> key, v |-> content])]

\* WithFile after its setType, without the test of r.multipart
WithFileWrittenUnchecked(r, key, src) == WriteFile(r, key, "data")

\* WithFile after its setType. src: "reader" (a reader is given and is read
\* to its end), "readerErr" (the reader fails), "file" (os.Open(path)
\* succeeds), "noFile" (it fails)
WithFileWritten(r, key, src) ==
    IF ~r.multipart
    THEN fail(r, Message("file", {"WithFile", "WithMultipart"}))
    ELSE IF src = "noFile"
    THEN fail(WriteFile(r, key, "header"), Message("open", {}))
    ELSE IF src = "readerErr"
    THEN fail(WriteFile(r, key, "partial"), Message("copy", {}))
    ELSE WriteFile(r, key, "data")

WithFile(r, key, src) ==
    IF r.failed THEN r
    ELSE WithFileWritten(setType(r, "WithFile", MultipartType, FALSE), key, src)

\* data: the file's contents; bytes.NewReader(data) never fails
WithFileBytes(r, key, data) ==
    IF r.failed THEN r ELSE WithFile(r, key, "reader")

\* WithMultipart creating the writer without claiming the body
WithMultipartOpenedNoBody(r) ==
    IF ~r.multipart
    THEN [r EXCEPT !.formbuf = <<>>, !.multipart = TRUE]
    ELSE r

\* WithMultipart after its setType
WithMultipartOpened(r) ==
    IF ~r.multipart
    THEN setBody([r EXCEPT !.formbuf = <<>>, !.multipart = TRUE],
                 "WithMultipart", Reader("formbuf", 0), 0, FALSE)
    ELSE r

WithMultipart(r) ==
    IF r.failed THEN r
    ELSE WithMultipartOpened(setType(r, "WithMultipart", MultipartType, FALSE))

(* ------------------------------ Expect -------------------------------- *)

\* multipart.Writer.Close writes the closing boundary
Close(r) == [r EXCEPT !.formbuf = Append(@, [t |-> "end", k |-> "", v |-> ""])]

\* the result of a phase: the Request after it and what the phase returned
Phase(r, ok) == [r |-> r, ok |-> ok]

\* r.http.URL.Path = concatPaths(r.http.URL.Path, r.path)
encodePath(r) == [r EXCEPT !.url.path = concatPaths(@, r.path)]

\* r.http.URL.RawQuery = r.query.Encode()
encodeQuery(r) ==
    IF ~r.query.nil THEN [r EXCEPT !.url.rawQuery = Encode(r.query)] ELSE r

\* r.setBody("Expect", r.formbuf, r.formbuf.Len(), true)
setMultipartBody(r) ==
    setBody(r, "Expect", Reader("formbuf", 0), Len(r.formbuf), TRUE)

\* strings.NewReader(s)
FormReader(s) == [rd |-> "form", data |-> 0, s |-> s]

\* encodeBody finalizing the multipart type without the override
encodeBodyNoOverride(r) ==
    IF r.multipart
    THEN setMultipartBody(setType(Close(r), "Expect", FormDataContentType, FALSE))
    ELSE IF ~r.form.nil
    THEN setBody(r, "WithForm or WithFormField", FormReader(Encode(r.form)),
                 Len(Encode(r.form)), FALSE)
    ELSE r

\* encodeBody installing the form's encoding over whatever the body holds
encodeBodyFormOverride(r) ==
    IF r.multipart
    THEN setMultipartBody(setType(Close(r), "Expect", FormDataContentType, TRUE))
    ELSE IF ~r.form.nil
    THEN setBody(r, "WithForm or WithFormField", FormReader(Encode(r.form)),
                 Len(Encode(r.form)), TRUE)
    ELSE r

\* the multipart / form branch of encodeRequest
encodeBody(r) ==
    IF r.multipart
    THEN setMultipartBody(setType(Close(r), "Expect", FormDataContentType, TRUE))
    ELSE IF ~r.form.nil
    THEN setBody(r, "WithForm or WithFormField", FormReader(Encode(r.form)),
                 Len(Encode(r.form)), FALSE)
    ELSE r

encodeRequest(r) ==
    IF r.failed THEN Phase(r, FALSE)
    ELSE Phase(encodeBody(encodeQuery(encodePath(r))), TRUE)

\* encodeWebsocketRequest without the test of r.bodySetter
encodeWebsocketRequestAnyBody(r) ==
    IF r.failed THEN Phase(r, FALSE)
    ELSE Phase([r EXCEPT !.url.scheme = IF @ = "https" THEN "wss" ELSE "ws"], TRUE)

encodeWebsocketRequest(r) ==
    IF r.failed THEN Phase(r, FALSE)
    ELSE IF r.bodySetter # ""
    THEN Phase(fail(r, Message("websocket",
                               {r.bodySetter, "WithWebsocketUpgrade"})), FALSE)
    ELSE Phase([r EXCEPT !.url.scheme = IF @ = "https" THEN "wss" ELSE "ws"], TRUE)

\* what a transmit phase returns: the Request after it, the transport
\* response ("nil" when there is none), the websocket connection and whether
\* the collaborator was invoked
Sent(r, response, websock, invoked) ==
    [r |-> r, response |-> response, websock |-> websock, invoked |-> invoked]

\* sendRequest without the test of the chain
sendRequestUnchecked(r, outcome) ==
    IF outcome = "err"
    THEN Sent(fail(r, Message("transport", {})), "nil", FALSE, TRUE)
    ELSE Sent(r, "http", FALSE, TRUE)

\* outcome: what Client.Do returns, "ok" or "err"
sendRequest(r, outcome) ==
    IF r.failed THEN Sent(r, "nil", FALSE, FALSE)
    ELSE IF outcome = "err"
    THEN Sent(fail(r, Message("transport", {})), "nil", FALSE, TRUE)
    ELSE Sent(r, "http", FALSE, TRUE)

\* sendWebsocketRequest taking every error of Dial for fatal
sendWebsocketRequestFatal(r, outcome) ==
    IF r.failed THEN Sent(r, "nil", FALSE, FALSE)
    ELSE IF outcome # "ok"
    THEN Sent(fail(r, Message("transport", {})), "nil", FALSE, TRUE)
    ELSE Sent(r, "switching", TRUE, TRUE)

\* outcome: what WebsocketDialer.Dial returns: "ok" (a connection and the 101
\* response), "badHandshake" (websocket.ErrBadHandshake and the server's
\* response), "err" (any other error)
sendWebsocketRequest(r, outcome) ==
    IF r.failed THEN Sent(r, "nil", FALSE, FALSE)
    ELSE IF outcome = "err"
    THEN Sent(fail(r, Message("transport", {})), "nil", FALSE, TRUE)
    ELSE IF outcome = "badHandshake" THEN Sent(r, "rejected", FALSE, TRUE)
    ELSE Sent(r, "switching", TRUE, TRUE)

\* what roundTrip returns: the Request after it, the transport response of
\* the Response ("nil" when roundTrip returns nil) and the invocations
Trip(r, response, websock, dialed, done) ==
    [r |-> r, response |-> response, websock |-> websock,
     dialed |-> dialed, done |-> done]

\* roundTrip from the transmit phase on
roundTripSent(sent, ws) ==
    Trip(sent.r, sent.response, sent.websock,
         sent.invoked /\ ws, sent.invoked /\ ~ws)

\* roundTrip after encodeWebsocketRequest has returned
roundTripUpgraded(phase, outcome) ==
    IF ~phase.ok THEN Trip(phase.r, "nil", FALSE, FALSE, FALSE)
    ELSE roundTripSent(sendWebsocketRequest(phase.r, outcome), TRUE)

\* roundTrip after encodeRequest has returned
roundTripEncoded(phase, outcome) ==
    IF ~phase.ok THEN Trip(phase.r, "nil", FALSE, FALSE, FALSE)
    ELSE IF phase.r.wsUpgrade
    THEN roundTripUpgraded(encodeWebsocketRequest(phase.r), outcome)
    ELSE roundTripSent(sendRequest(phase.r, outcome), FALSE)

roundTrip(r, outcome) == roundTripEncoded(encodeRequest(r), outcome)

\* makeResponse: the Response handed to the caller
makeResponse(chainFailed, response, websock, invoked) ==
    [kind |-> IF response = "nil" THEN "placeholder" ELSE "response",
     failed |-> chainFailed, response |-> response, websocket |-> websock,
     matched |-> invoked]

NoResponse == [kind |-> "none", failed |-> FALSE, response |-> "nil",
               websocket |-> FALSE, matched |-> <<>>]

\* Expect running the matchers whatever roundTrip returned
ExpectedMatchesAlways(t) ==
    [r |-> t.r,
     resp |-> makeResponse(t.r.failed, t.response, t.websock, t.r.matchers),
     dialed |-> t.dialed, done |-> t.done]

\* Expect after roundTrip has returned t: the Request, the Response Expect
\* returns (the matchers run on it) and the invocations
Expected(t) ==
    [r |-> t.r,
     resp |-> IF t.response = "nil"
              THEN makeResponse(t.r.failed, "nil", FALSE, <<>>)
              ELSE makeResponse(t.r.failed, t.response, t.websock, t.r.matchers),
     dialed |-> t.dialed, done |-> t.done]

Expect(r, outcome) == Expected(roundTrip(r, outcome))

(* ----------------------------- NewRequest ------------------------------ *)

URL(scheme, p) == [scheme |-> scheme, path |-> p, rawQuery |-> <<>>]

HeaderKeys == {"Content-Type", "X-Test", "Cookie", "Authorization"}

\* the Request NewRequest returns when nothing fails
NewRequestValue(base, p) ==
    [failed |-> FALSE, msg |-> NoMsg,
     client |-> [kind |-> "http.Client", transport |-> "default"],
     dialer |-> "default",
     path |-> p,
     query |-> NilValues, form |-> NilValues,
     formbuf |-> <<>>, multipart |-> FALSE,
     bodySetter |-> "", typeSetter |-> "",
     forceType |-> FALSE, wsUpgrade |-> FALSE, matchers |-> <<>>,
     header |-> [k \in HeaderKeys |-> <<>>],
     host |-> "", proto |-> <<1, 1>>,
     body |-> NoBody, contentLength |-> 0, url |-> base]

\* NewRequest after interpol.WithFunc has returned res
NewRequestMade(base, template, res) ==
    failIf(Malformed(template),
           failIf(res.nilArg,
                  NewRequestValue(base,
                                  IF Malformed(template) THEN <<>> ELSE res.path),
                  Message("nil", {})),
           Message("interpol", {}))

\* NewRequest with the callback's counter n starting at one
NewRequestCountsFromOne(base, template, pathargs) ==
    NewRequestMade(base, template, NewRequestFrom(template, pathargs, 1, 1))

\* NewRequest(config, method, path, pathargs...) with config.BaseURL = base
NewRequest(base, template, pathargs) ==
    NewRequestMade(base, template, NewRequestFrom(template, pathargs, 1, 0))

(* ------------------------------ inputs -------------------------------- *)

BaseURLs == {URL("https", <<"/", "api", "/">>)}
Templates == {<<"/", "u", "/", "{id}">>}
PathArgs == {<<Value(<<"7">>)>>, <<NilValue>>}

Matchers == {"m1", "m2"}
HeaderPairs == {<<"Content-Type", JSONType>>, <<"content-type", "x/custom">>,
                <<"X-Test", "v">>, <<"Host", "h">>}
Protos == {<<1, 0>>, <<1, 1>>, <<>>}
Readers == {"nil", "reader"}
ByteSlices == {NilBytes, 0, 1}
Texts == {0, 1}
Objects == {Unmarshalable, 1}
Invalid == [kind |-> "invalid", q |-> EmptyValues]
Map(q) == [kind |-> "map", q |-> q]
FormObjects == {Invalid,
                Map([k \in Keys |-> IF k = "a" THEN <<"1">> ELSE <<>>]),
                Map([k \in Keys |-> IF k = "a" THEN <<"1", "2">> ELSE <<"1">>])}
FieldValues == {1}
FileSources == {"reader", "readerErr", "file", "noFile"}
DoOutcomes == {"ok", "err"}
DialOutcomes == {"ok", "badHandshake", "err"}

(* ------------------------------ actions ------------------------------- *)

\* the fields of the Request are those of r
Holds(r) ==
    /\ failed = r.failed
    /\ msg = r.msg
    /\ client = r.client
    /\ dialer = r.dialer
    /\ path = r.path
    /\ query = r.query
    /\ form = r.form
    /\ formbuf = r.formbuf
    /\ multipart = r.multipart
    /\ bodySetter = r.bodySetter
    /\ typeSetter = r.typeSetter
    /\ forceType = r.forceType
    /\ wsUpgrade = r.wsUpgrade
    /\ matchers = r.matchers
    /\ header = r.header
    /\ host = r.host
    /\ proto = r.proto
    /\ body = r.body
    /\ contentLength = r.contentLength
    /\ url = r.url

\* NewRequest has returned, its arguments taken from the given sets
CreatedFrom(bases, templates, arglists) ==
    /\ \E base \in bases, template \in templates, pathargs \in arglists :
         /\ Holds(NewRequest(base, template, pathargs))
         /\ args = [base |-> base, template |-> template, pathargs |-> pathargs]
    /\ resp = NoResponse
    /\ dials = 0
    /\ dos = 0
    /\ lastOp = "NewRequest"
    /\ upgradeCalled = FALSE
    /\ bodyCalled = FALSE
    /\ calls = 0

Created == CreatedFrom(BaseURLs, Templates, PathArgs)

Init == Created /\ budget = MaxCalls

\* the template's placeholder is also left open for WithPath
InitAll ==
    CreatedFrom(BaseURLs, Templates, PathArgs \cup {<<>>}) /\ budget = MaxCallsAll

\* the methods that set the body or add to the form
BodyCalls == {"WithBytes", "WithText", "WithJSON", "WithJSONPretty",
              "WithChunked", "WithForm", "WithFormField", "WithMultipart"}

\* a configuration call: the Request becomes r, nothing is transmitted
Call(op, r) ==
    /\ calls < budget
    /\ Store(r)
    /\ lastOp' = op
    /\ upgradeCalled' = (upgradeCalled \/ op = "WithWebsocketUpgrade")
    /\ bodyCalled' = (bodyCalled \/ op \in BodyCalls)
    /\ calls' = calls + 1
    /\ UNCHANGED <<resp, dials, dos, budget, args>>

CallWithMatcher == \E m \in Matchers : Call("WithMatcher", WithMatcher(R, m))
CallWithWebsocketUpgrade == Call("WithWebsocketUpgrade", WithWebsocketUpgrade(R))
CallWithHeader == \E kv \in HeaderPairs : Call("WithHeader", WithHeader(R, kv[1], kv[2]))
CallWithProto == \E p \in Protos : Call("WithProto", WithProto(R, p))
CallWithChunked == \E rd \in Readers : Call("WithChunked", WithChunked(R, rd))
CallWithJSONPretty == \E o \in Objects : Call("WithJSONPretty", WithJSONPretty(R, o))
CallWithBytes == \E b \in ByteSlices : Call("WithBytes", WithBytes(R, b))
CallWithText == \E s \in Texts : Call("WithText", WithText(R, s))
CallWithJSON == \E o \in Objects : Call("WithJSON", WithJSON(R, o))
CallWithForm == \E o \in FormObjects : Call("WithForm", WithForm(R, o))
CallWithFormField ==
    \E k \in Keys, v \in FieldValues : Call("WithFormField", WithFormField(R, k, v))
CallWithFile == \E src \in FileSources : Call("WithFile", WithFile(R, "a", src))
CallWithFileBytes == Call("WithFileBytes", WithFileBytes(R, "a", 1))
CallWithMultipart == Call("WithMultipart", WithMultipart(R))

\* Expect has returned e
Returned(e) ==
    /\ calls < budget
    /\ Store(e.r)
    /\ resp' = e.resp
    /\ dials' = dials + (IF e.dialed THEN 1 ELSE 0)
    /\ dos' = dos + (IF e.done THEN 1 ELSE 0)
    /\ lastOp' = "Expect"
    /\ calls' = calls + 1
    /\ UNCHANGED <<upgradeCalled, bodyCalled, budget, args>>

\* Expect, the transport answering with outcome
ExpectStep(outcome) == Returned(Expect(R, outcome))

CallExpect ==
    \E outcome \in (IF wsUpgrade THEN DialOutcomes ELSE DoOutcomes) :
        ExpectStep(outcome)

Next ==
    \/ CallWithMatcher
    \/ CallWithWebsocketUpgrade
    \/ CallWithHeader
    \/ CallWithProto
    \/ CallWithChunked
    \/ CallWithJSONPretty
    \/ CallWithBytes
    \/ CallWithText
    \/ CallWithJSON
    \/ CallWithForm
    \/ CallWithFormField
    \/ CallWithFile
    \/ CallWithFileBytes
    \/ CallWithMultipart
    \/ CallExpect

Spec == Init /\ [][Next]_vars

(* ---------------- the other configuration calls ----------------------- *)

Clients == {"nil", "custom"}
Handlers == {"nil", "binder"}
Dialers == {"nil", "custom"}
PathKeys == {"id", "ID", "n"}
\* nil, a plain text, a text holding a placeholder, a text holding a brace
PathValues == {NilValue, Value(<<"8">>), Value(<<"{n}">>), Value(<<"{">>)}
PathMap(pairs) == [kind |-> "map", pairs |-> pairs]
\* every map is given once per order in which range may visit its pairs
PathObjects == {[kind |-> "nil", pairs |-> <<>>],
                [kind |-> "invalid", pairs |-> <<>>],
                PathMap(<< <<"id", Value(<<"8">>)>> >>),
                PathMap(<< <<"id", Value(<<"8">>)>>, <<"n", Value(<<"9">>)>> >>),
                PathMap(<< <<"n", Value(<<"9">>)>>, <<"id", Value(<<"8">>)>> >>),
                PathMap(<< <<"id", Value(<<"8">>)>>, <<"ID", Value(<<"9">>)>> >>),
                PathMap(<< <<"ID", Value(<<"9">>)>>, <<"id", Value(<<"8">>)>> >>)}
QueryValues == {1, 2}
QueryObjects == {[kind |-> "nil", q |-> EmptyValues], Invalid,
                 Map([k \in Keys |-> IF k = "b" THEN <<"2">> ELSE <<>>])}
QueryStrings == {Invalid,
                 Map([k \in Keys |-> IF k = "b" THEN <<"2">> ELSE <<>>]),
                 Map([k \in Keys |-> IF k = "b" THEN <<"2">> ELSE <<"1">>])}
URLStrings == {[kind |-> "invalid", u |-> URL("", <<>>)],
               [kind |-> "url", u |-> URL("http", <<>>)]}
HeaderMaps == {<< <<"Content-Type", TextType>>, <<"content-type", JSONType>> >>,
               << <<"content-type", JSONType>>, <<"Content-Type", TextType>> >>}
CookieMaps == {<< <<"foo", "aa">> >>}

CallWithClient == \E c \in Clients : Call("WithClient", WithClient(R, c))
CallWithHandler == \E h \in Handlers : Call("WithHandler", WithHandler(R, h))
CallWithWebsocketDialer ==
    \E d \in Dialers : Call("WithWebsocketDialer", WithWebsocketDialer(R, d))
CallWithPath ==
    \E k \in PathKeys, v \in PathValues : Call("WithPath", WithPath(R, k, v))
CallWithPathObject ==
    \E o \in PathObjects : Call("WithPathObject", WithPathObject(R, o))
CallWithQuery ==
    \E k \in Keys, v \in QueryValues : Call("WithQuery", WithQuery(R, k, v))
CallWithQueryObject ==
    \E o \in QueryObjects : Call("WithQueryObject", WithQueryObject(R, o))
CallWithQueryString ==
    \E q \in QueryStrings : Call("WithQueryString", WithQueryString(R, q))
CallWithURL == \E u \in URLStrings : Call("WithURL", WithURL(R, u))
CallWithHeaders == \E h \in HeaderMaps : Call("WithHeaders", WithHeaders(R, h))
CallWithCookies == \E c \in CookieMaps : Call("WithCookies", WithCookies(R, c))
CallWithCookie == Call("WithCookie", WithCookie(R, "name", "value"))
CallWithBasicAuth == Call("WithBasicAuth", WithBasicAuth(R, "john", "secret"))

NextAll ==
    \/ CallWithMatcher
    \/ CallWithWebsocketUpgrade
    \/ CallWithHeader
    \/ CallWithProto
    \/ CallWithChunked
    \/ CallWithJSONPretty
    \/ CallWithBytes
    \/ CallWithText
    \/ CallWithJSON
    \/ CallWithForm
    \/ CallWithFormField
    \/ CallWithFile
    \/ CallWithFileBytes
    \/ CallWithMultipart
    \/ CallExpect
    \/ CallWithClient
    \/ CallWithHandler
    \/ CallWithWebsocketDialer
    \/ CallWithPath
    \/ CallWithPathObject
    \/ CallWithQuery
    \/ CallWithQueryObject
    \/ CallWithQueryString
    \/ CallWithURL
    \/ CallWithHeaders
    \/ CallWithCookies
    \/ CallWithCookie
    \/ CallWithBasicAuth

\* every method of Request, in any order
SpecAll == InitAll /\ [][NextAll]_vars

(* ------------------- the path and the query alone --------------------- *)

\* Config.BaseURL: no path, no trailing slash, one, two
PathBaseURLs == {URL("https", <<>>), URL("https", <<"/", "api">>),
                 URL("https", <<"/", "api", "/">>),
                 URL("https", <<"/", "api", "/", "/">>)}
\* two placeholders, a repeated one, an upper-case one without a leading
\* slash, two leading slashes, the empty path, an unbalanced brace
PathTemplates == {<<"/", "u", "/", "{id}", "/", "{n}">>,
                  <<"/", "{id}", "/", "{id}", "/", "{n}">>,
                  <<"{ID}", "/", "{n}">>,
                  <<"/", "/", "u", "/", "{id}">>,
                  <<>>,
                  <<"/", "u", "/", "{">>}
PathArgLists == {<<>>, <<Value(<<"7">>)>>, <<Value(<<"7">>), Value(<<"9">>)>>,
                 <<NilValue>>}

InitPath ==
    CreatedFrom(PathBaseURLs, PathTemplates, PathArgLists) /\ budget = MaxCallsPath

NextPath ==
    \/ CallWithPath
    \/ CallWithPathObject
    \/ CallExpect

\* NewRequest over the templates, then the path methods and Expect
SpecPath == InitPath /\ [][NextPath]_vars

InitQuery == Created /\ budget = MaxCallsQuery

NextQuery ==
    \/ CallWithQuery
    \/ CallWithQueryObject
    \/ CallWithQueryString
    \/ CallExpect

\* the query methods and Expect
SpecQuery == InitQuery /\ [][NextQuery]_vars

(* ------------------------------ properties ---------------------------- *)

\* the setter label a method hands to setType / setBody
Label(op) ==
    CASE op = "WithJSONPretty" -> "WithJSON"
      [] op = "WithFileBytes" -> "WithFile"
      [] OTHER -> op

\* the methods that infer a Content-Type, and the type each wants in the
\* current state
TypedCalls == {"WithJSON", "WithJSONPretty", "WithText", "WithForm",
               "WithFormField", "WithFile", "WithFileBytes", "WithMultipart"}

Wanted(op) ==
    CASE op \in {"WithJSON", "WithJSONPretty"} -> JSONType
      [] op = "WithText" -> TextType
      [] op \in {"WithForm", "WithFormField"} ->
            IF multipart THEN MultipartType ELSE FormType
      [] OTHER -> MultipartType

\* the unforced header holds a type other than the one op wants
TypeConflict(op) ==
    /\ ~forceType
    /\ op \in TypedCalls
    /\ ContentTypeOf(R) # ""
    /\ ContentTypeOf(R) # Wanted(op)

\* the multipart writer exists and Expect has not closed it
MultipartOpen ==
    /\ multipart
    /\ \A i \in 1..Len(formbuf) : formbuf[i].t # "end"

\* C1 (as stated): once the chain is failed, every mutating call, WithMatcher
\* included, leaves every field of the Request unchanged.
C1_StickyNoOp ==
    [][(failed /\ lastOp' # "Expect") => UNCHANGED reqVars]_vars

\* the methods that set the body directly
BodySetters == {"WithBytes", "WithText", "WithJSON", "WithJSONPretty",
                "WithChunked", "WithMultipart"}

\* a body-setting call on an unfailed Request whose body is already set
SecondBodyCall ==
    /\ ~failed
    /\ bodySetter # ""
    /\ lastOp' \in BodySetters
    /\ lastOp' = "WithMultipart" => ~multipart

BodyKept ==
    /\ body' = body
    /\ contentLength' = contentLength
    /\ bodySetter' = bodySetter

\* C2 (as stated): the second body-setting call fails the chain with a
\* message naming both setters' labels, and body, content length and
\* body-setter label stay as the first call left them.
C2_Original ==
    [][SecondBodyCall =>
         /\ failed'
         /\ {bodySetter, Label(lastOp')} \subseteq msg'.names
         /\ BodyKept]_vars

\* C2 (amended): the second body-setting call always fails the chain and
\* keeps body, content length and body-setter label; the message is the body
\* conflict naming both labels unless the call fails before it reaches
\* setBody: on a marshal error, on a Content-Type conflict (exactly when the
\* unforced header holds another type than the call wants and the object
\* marshals), or, for WithChunked, on a protocol below HTTP/1.1.
C2_SecondBodyFails ==
    [][SecondBodyCall =>
         /\ failed'
         /\ BodyKept
         /\ msg'.kind \in {"body", "type", "marshal", "chunked"}
         /\ msg'.kind = "body" => msg'.names = {bodySetter, Label(lastOp')}
         /\ msg'.kind = "type" => TypeConflict(lastOp')
         /\ TypeConflict(lastOp') => msg'.kind \in {"type", "marshal"}
         /\ msg'.kind = "marshal" => lastOp' \in {"WithJSON", "WithJSONPretty"}
         /\ msg'.kind = "chunked" <=>
               (lastOp' = "WithChunked" /\ ~ProtoAtLeast(R, 1, 1))]_vars

C2_Witness ==
    /\ failed
    /\ msg.kind = "body"
    /\ lastOp = "WithText"
    /\ bodySetter = "WithJSON"
    /\ msg.names = {"WithJSON", "WithText"}
    /\ body.rd = "json"

\* C3: once forceType is true it stays true, and no typed-body call changes
\* the Content-Type header or records a Content-Type conflict.
C3_ForcedTypeStable ==
    [][forceType =>
         /\ forceType'
         /\ lastOp' \in TypedCalls =>
               /\ header'["Content-Type"] = header["Content-Type"]
               /\ msg'.kind # "type"]_vars

C3_Witness ==
    /\ forceType
    /\ ~failed
    /\ lastOp \in TypedCalls
    /\ bodySetter = "WithJSON"
    /\ typeSetter = "WithHeader"
    /\ header["Content-Type"] = <<"x/custom">>

\* WithHeader called with a key that is Content-Type and the value v
WithHeaderContentType(k, v) ==
    /\ ~failed
    /\ CanonicalHeaderKey(k) = "Content-Type"
    /\ Call("WithHeader", WithHeader(R, k, v))

\* C4 (as stated): WithHeader("Content-Type", v) on an unfailed Request never
\* fails and leaves the header holding exactly the single value v.
C4_Original ==
    [][\A kv \in HeaderPairs :
         WithHeaderContentType(kv[1], kv[2]) =>
            /\ ~failed'
            /\ header'["Content-Type"] = <<kv[2]>>]_vars

\* C4 (amended): WithHeader("Content-Type", v) on an unfailed Request never
\* fails and sets the forced flag; it replaces a value set automatically by
\* the single value v, and when an earlier WithHeader call already set the
\* type it appends v after the earlier values, which stay in effect.
C4_HeaderContentType ==
    [][\A kv \in HeaderPairs :
         WithHeaderContentType(kv[1], kv[2]) =>
            /\ ~failed'
            /\ forceType'
            /\ typeSetter' = "WithHeader"
            /\ header'["Content-Type"] =
                  IF forceType THEN Append(header["Content-Type"], kv[2])
                  ELSE <<kv[2]>>]_vars

C4_Witness ==
    /\ ~failed
    /\ lastOp = "WithHeader"
    /\ bodySetter = "WithText"
    /\ forceType
    /\ header["Content-Type"] = <<JSONType, "x/custom">>

C6_WebsocketWithBody ==
    [][(lastOp' = "Expect" /\ upgradeCalled /\ bodyCalled) =>
         /\ failed'
         /\ dials' = dials
         /\ dos' = dos]_vars

C6_Witness ==
    /\ lastOp = "Expect"
    /\ upgradeCalled
    /\ bodyCalled
    /\ failed
    /\ msg.kind = "websocket"
    /\ "WithWebsocketUpgrade" \in msg.names
    /\ dials = 0
    /\ dos = 0

\* C7: when Dial returns the handshake-rejected error the chain is not failed
\* and the dialer's response is returned; when Dial returns another error, or
\* Do returns an error, the chain is failed and there is no transport response.
C7_TransportErrors ==
    [][\A o \in DialOutcomes \cup DoOutcomes :
         (~failed /\ ExpectStep(o)) =>
            /\ (dials' = dials + 1 /\ o = "badHandshake") =>
                  /\ ~failed'
                  /\ resp'.kind = "response"
                  /\ resp'.response = "rejected"
                  /\ resp'.failed = FALSE
            /\ (dials' = dials + 1 /\ o = "err") =>
                  /\ failed'
                  /\ resp'.kind = "placeholder"
                  /\ resp'.response = "nil"
            /\ (dos' = dos + 1 /\ o = "err") =>
                  /\ failed'
                  /\ resp'.kind = "placeholder"
                  /\ resp'.response = "nil"]_vars

C7_Witness ==
    /\ lastOp = "Expect"
    /\ dials = 1
    /\ ~failed
    /\ resp.kind = "response"
    /\ resp.response = "rejected"

\* the chain is failed when Expect starts, or its encode phase fails it
FailedBeforeTransmit ==
    \/ failed
    \/ encodeRequest(R).r.failed
    \/ wsUpgrade /\ encodeWebsocketRequest(encodeRequest(R).r).r.failed

\* C8: when the chain is failed before the transmit phase, Expect invokes
\* neither Do nor Dial and returns a placeholder that carries the failed
\* chain and no transport response.
C8_NoTransmitOnceFailed ==
    [][(lastOp' = "Expect" /\ FailedBeforeTransmit) =>
         /\ dials' = dials
         /\ dos' = dos
         /\ failed'
         /\ resp'.kind = "placeholder"
         /\ resp'.failed
         /\ resp'.response = "nil"
         /\ resp'.matched = <<>>]_vars

C8_Witness ==
    /\ lastOp = "Expect"
    /\ failed
    /\ msg = Message("body", {"WithBytes", "WithForm or WithFormField"})
    /\ ~wsUpgrade
    /\ resp.kind = "placeholder"
    /\ resp.failed
    /\ dos = 0

\* WithFile or WithFileBytes is called on an unfailed Request
FileCall == ~failed /\ lastOp' \in {"WithFile", "WithFileBytes"}

FilePartAppended ==
    /\ Len(formbuf') = Len(formbuf) + 1
    /\ SubSeq(formbuf', 1, Len(formbuf)) = formbuf
    /\ formbuf'[Len(formbuf')].t = "file"

\* C9 (as stated): WithFile with the multipart state absent always fails the
\* chain with the message naming WithMultipart and writes to no buffer; with
\* the multipart state open it appends a file part.
C9_Original ==
    [][FileCall =>
         /\ ~multipart =>
               /\ failed'
               /\ msg' = Message("file", {"WithFile", "WithMultipart"})
               /\ formbuf' = formbuf
               /\ body' = body
         /\ MultipartOpen => FilePartAppended]_vars

\* C9 (amended): WithFile with the multipart state absent always fails the
\* chain and writes to no buffer; the message names WithMultipart unless the
\* unforced Content-Type header holds a type other than multipart/form-data,
\* and then it is the Content-Type conflict between that type and WithFile's.
\* With the multipart state open it appends a file part.
C9_FileNeedsMultipart ==
    [][FileCall =>
         /\ ~multipart =>
               /\ failed'
               /\ msg' = IF TypeConflict("WithFile")
                         THEN Message("type", {ContentTypeOf(R), typeSetter,
                                               MultipartType, "WithFile"})
                         ELSE Message("file", {"WithFile", "WithMultipart"})
               /\ formbuf' = formbuf
               /\ body' = body
               /\ ~multipart'
         /\ MultipartOpen => FilePartAppended]_vars

C9_Witness ==
    /\ failed
    /\ lastOp \in {"WithFile", "WithFileBytes"}
    /\ msg = Message("file", {"WithFile", "WithMultipart"})
    /\ ~multipart
    /\ formbuf = <<>>

\* Expect encodes an unfailed Request whose multipart state is open
EncodeOpenMultipart == ~failed /\ MultipartOpen /\ lastOp' = "Expect"

\* C10 (as stated): after Expect encodes an open multipart state the
\* Content-Type header is the writer-generated value and the content length
\* is the buffer's length.
C10_Original ==
    [][EncodeOpenMultipart =>
         /\ header'["Content-Type"] = <<FormDataContentType>>
         /\ contentLength' = Len(formbuf')]_vars

\* C10 (amended): after Expect encodes an open multipart state the content
\* length is the buffer's length, and the Content-Type header is the
\* writer-generated value unless the type was forced through WithHeader, in
\* which case the header keeps the forced value.
C10_MultipartFinalized ==
    [][EncodeOpenMultipart =>
         /\ contentLength' = Len(formbuf')
         /\ bodySetter' = "Expect"
         /\ body'.rd = "formbuf"
         /\ header'["Content-Type"] =
               IF forceType THEN header["Content-Type"]
               ELSE <<FormDataContentType>>]_vars

C10_Witness ==
    /\ lastOp = "Expect"
    /\ ~forceType
    /\ multipart
    /\ bodySetter = "Expect"
    /\ header["Content-Type"] = <<FormDataContentType>>
    /\ Len(formbuf) > 1
    /\ contentLength = Len(formbuf)
    /\ formbuf[Len(formbuf)].t = "end"

\* the number of closing boundaries multipart.Writer.Close has written
Closes(buf) == Cardinality({i \in 1..Len(buf) : buf[i].t = "end"})

\* C11 (as stated): the multipart accumulator leaves absent only through
\* WithMultipart, is closed only by Expect, is closed at most once, and once
\* closed no call writes to the writer or closes it again.
C11_MultipartLifecycle ==
    [][/\ (~multipart /\ multipart') => lastOp' = "WithMultipart"
       /\ Closes(formbuf') > Closes(formbuf) => lastOp' = "Expect"
       /\ Closes(formbuf') <= 1
       /\ Closes(formbuf) >= 1 => formbuf' = formbuf]_vars

\* Expect runs its encode phase on an unfailed Request
EncodeStep == ~failed /\ lastOp' = "Expect"

\* C12 (as stated): the finalization steps of Expect's encode phase on an
\* unfailed Request never record a body conflict or a Content-Type conflict.
C12_Original ==
    [][EncodeStep => msg'.kind \notin {"body", "type"}]_vars

\* C12 (amended): on an unfailed Request the encode phase never records a
\* Content-Type conflict, and closing the multipart writer and installing its
\* buffer never records a body conflict; serializing the URL-encoded form
\* records a body conflict exactly when the body-setter label is already set,
\* naming that label and "WithForm or WithFormField", and then the body,
\* content length and label stay as they were.
C12_FinalizationConflicts ==
    [][EncodeStep =>
         /\ msg'.kind # "type"
         /\ msg'.kind = "body" <=> (~multipart /\ ~form.nil /\ bodySetter # "")
         /\ msg'.kind = "body" =>
               /\ failed'
               /\ msg'.names = {bodySetter, "WithForm or WithFormField"}
               /\ BodyKept
         /\ (~multipart /\ ~form.nil /\ bodySetter = "") =>
               /\ bodySetter' = "WithForm or WithFormField"
               /\ body' = FormReader(Encode(form))]_vars

\* a second Expect serializes the form over the body the first one installed
C12_Witness ==
    /\ lastOp = "Expect"
    /\ failed
    /\ msg = Message("body", {"WithForm or WithFormField"})
    /\ bodySetter = "WithForm or WithFormField"
    /\ body.rd = "form"
    /\ dos = 1

\* the concatenation of a sequence of sequences
RECURSIVE Flatten(_)
Flatten(ss) == IF ss = <<>> THEN <<>> ELSE Head(ss) \o Flatten(Tail(ss))

\* the placeholder at t[i] is the first one of its name
FirstOfName(t, i) == IsPlaceholder(t[i]) /\ \A j \in 1..(i - 1) : t[j] # t[i]

\* the position of the name of the placeholder t[i] among the distinct
\* placeholder names of t, in order of first appearance
NameRank(t, i) ==
    Cardinality({j \in 1..i : FirstOfName(t, j) /\ \E l \in j..i :
                    t[l] = t[i] /\ FirstOfName(t, l)})

\* the position of the placeholder t[i] among the placeholder occurrences of t
OccurrenceRank(t, i) == Cardinality({j \in 1..i : IsPlaceholder(t[j])})

\* t with the k-th distinct placeholder name replaced by the k-th argument
FilledByName(t, a) ==
    Flatten([i \in 1..Len(t) |->
               IF IsPlaceholder(t[i]) /\ NameRank(t, i) <= Len(a)
               THEN a[NameRank(t, i)].text ELSE <<t[i]>>])

\* t with the k-th placeholder occurrence replaced by the k-th argument
FilledByOccurrence(t, a) ==
    Flatten([i \in 1..Len(t) |->
               IF IsPlaceholder(t[i]) /\ OccurrenceRank(t, i) <= Len(a)
               THEN a[OccurrenceRank(t, i)].text ELSE <<t[i]>>])

\* NewRequest has returned; it was given a well-formed template and non-nil
\* arguments
MadeOfNonNil ==
    /\ lastOp = "NewRequest"
    /\ ~Malformed(args.template)
    /\ \A i \in 1..Len(args.pathargs) : ~args.pathargs[i].nil

\* C13 (as stated): with k non-nil arguments, k at most the number of
\* distinct placeholder names, NewRequest replaces the first k distinct
\* placeholders in order of first appearance, leaves the rest as {name} text
\* and reports no failure, also when a name occurs more than once.
C13_Original ==
    (/\ MadeOfNonNil
     /\ Len(args.pathargs) <=
           Cardinality({i \in 1..Len(args.template) :
                          FirstOfName(args.template, i)}))
    => /\ ~failed
       /\ path = FilledByName(args.template, args.pathargs)

\* C13 (amended): with k non-nil arguments, k at most the number of
\* placeholder occurrences, NewRequest replaces the first k placeholder
\* occurrences in order of appearance, a repeated name taking one argument
\* per occurrence, leaves the rest as {name} text and reports no failure.
C13_PositionalOccurrences ==
    (/\ MadeOfNonNil
     /\ Len(args.pathargs) <=
           Cardinality({i \in 1..Len(args.template) :
                          IsPlaceholder(args.template[i])}))
    => /\ ~failed
       /\ path = FilledByOccurrence(args.template, args.pathargs)

\* the two occurrences of {id} have taken the two arguments
C13_Witness ==
    /\ lastOp = "NewRequest"
    /\ ~failed
    /\ args.template = <<"/", "{id}", "/", "{id}", "/", "{n}">>
    /\ args.pathargs = <<Value(<<"7">>), Value(<<"9">>)>>
    /\ path = <<"/", "7", "/", "9", "/", "{n}">>

\* two Requests with the same path and the same failed state
SameResult(r1, r2) == r1.path = r2.path /\ r1.failed = r2.failed

\* WithPath(k1, v1) followed by WithPath(k2, v2)
WithPathTwice(k1, v1, k2, v2) == WithPath(WithPath(R, k1, v1), k2, v2)

\* the non-nil values
NonNilValues == PathValues \ {NilValue}

\* the values whose text holds no brace
PlainValues == {Value(<<"8">>), Value(<<"9">>)}

\* the path has a placeholder equal to key, letter case ignored
HasPlaceholderFor(key) ==
    \E i \in 1..Len(path) :
        IsPlaceholder(path[i]) /\ ToLower(PhName(path[i])) = ToLower(key)

\* C14 (as stated): for two different keys and non-nil values, also keys that
\* differ only in letter case and values whose text holds a placeholder, the
\* path and the failed state after WithPath(k1, v1).WithPath(k2, v2) equal
\* those after WithPath(k2, v2).WithPath(k1, v1).
C14_Original ==
    ~failed =>
       \A k1 \in PathKeys, k2 \in PathKeys, v1 \in NonNilValues, v2 \in NonNilValues :
          k1 # k2 => SameResult(WithPathTwice(k1, v1, k2, v2),
                                WithPathTwice(k2, v2, k1, v1))

\* C14 (amended): for two keys that differ by more than letter case and each
\* equal a placeholder of the path, and non-nil values whose text holds no
\* brace, the path and the failed state after WithPath(k1, v1).WithPath(k2, v2)
\* equal those after WithPath(k2, v2).WithPath(k1, v1), and neither order
\* fails.
C14_CommutesOnMatchedKeys ==
    ~failed =>
       \A k1 \in PathKeys, k2 \in PathKeys, v1 \in PlainValues, v2 \in PlainValues :
          (/\ ToLower(k1) # ToLower(k2)
           /\ HasPlaceholderFor(k1)
           /\ HasPlaceholderFor(k2))
          => /\ SameResult(WithPathTwice(k1, v1, k2, v2),
                           WithPathTwice(k2, v2, k1, v1))
             /\ ~WithPathTwice(k1, v1, k2, v2).failed

\* two WithPath calls have resolved the two placeholders of the template
C14_Witness ==
    /\ lastOp = "WithPath"
    /\ calls = 2
    /\ ~failed
    /\ args.template = <<"{ID}", "/", "{n}">>
    /\ args.pathargs = <<>>
    /\ path = <<"8", "/", "8">>

\* C15: WithPath(key, value) on an unfailed Request whose path has no
\* placeholder equal to key, letter case ignored, fails the chain and leaves
\* the path exactly as it was.
C15_UnmatchedKeyFails ==
    [][\A k \in PathKeys, v \in PathValues :
         (/\ ~failed
          /\ ~HasPlaceholderFor(k)
          /\ Call("WithPath", WithPath(R, k, v)))
         => /\ failed'
            /\ path' = path]_vars

\* WithPath has failed on its key and the path still holds a placeholder
C15_Witness ==
    /\ lastOp = "WithPath"
    /\ failed
    /\ msg.kind = "key"
    /\ calls = 1
    /\ path = <<"/", "/", "u", "/", "{id}">>

\* two collections hold the same pairs, visited in different orders
SamePairs(o1, o2) ==
    /\ o1.kind = "map"
    /\ o2.kind = "map"
    /\ Len(o1.pairs) = Len(o2.pairs)
    /\ {o1.pairs[i] : i \in 1..Len(o1.pairs)} = {o2.pairs[i] : i \in 1..Len(o2.pairs)}

\* C16 (as stated): the path and the failed state after WithPathObject do not
\* depend on the order in which the pairs of the collection are visited.
C16_OrderIrrelevant ==
    \A o1 \in PathObjects, o2 \in PathObjects :
       SamePairs(o1, o2) => SameResult(WithPathObject(R, o1), WithPathObject(R, o2))

\* the query holds, for every key, what it held followed by the values of q
QueryGrownBy(q) ==
    /\ ~failed'
    /\ ~query'.nil
    /\ \A k \in Keys : query'.v[k] = query.v[k] \o q[k]

\* the single value WithQuery(key, value) supplies
OneValue(key, value) == [k \in Keys |-> IF k = key THEN <<Sprint(value)>> ELSE <<>>]

\* the key=value pairs of one key, in the order of its values
PairsOf(k) == [j \in 1..Len(query.v[k]) |-> <<k, query.v[k][j]>>]

\* C17: every successful WithQuery, WithQueryObject and WithQueryString call
\* appends the values it supplies to the values the query already holds for
\* their keys, no other call changes the query, and Expect serializes the
\* pairs with the keys in sorted order.
C17_QueryAccumulates ==
    [][/\ \A k \in Keys, v \in QueryValues :
            (~failed /\ Call("WithQuery", WithQuery(R, k, v)))
            => QueryGrownBy(OneValue(k, v))
       /\ \A o \in QueryObjects :
            (~failed /\ o.kind = "map" /\ Call("WithQueryObject", WithQueryObject(R, o)))
            => QueryGrownBy(o.q)
       /\ \A q \in QueryStrings :
            (~failed /\ q.kind = "map" /\ Call("WithQueryString", WithQueryString(R, q)))
            => QueryGrownBy(q.q)
       /\ (failed' \/ lastOp' = "Expect") => query' = query
       /\ (EncodeStep /\ ~query.nil)
            => url'.rawQuery = PairsOf("a") \o PairsOf("b")]_vars

\* WithQuery("a", 1), WithQueryString("b=2"), Expect
C17_Witness ==
    /\ lastOp = "Expect"
    /\ ~failed
    /\ calls = 3
    /\ query.v["a"] = <<"1">>
    /\ query.v["b"] = <<"2">>
    /\ url.rawQuery = << <<"a", "1">>, <<"b", "2">> >>

\* p without its trailing slashes
RECURSIVE DropTrailingSlashes(_)
DropTrailingSlashes(p) ==
    IF p # <<>> /\ p[Len(p)] = "/"
    THEN DropTrailingSlashes(SubSeq(p, 1, Len(p) - 1)) ELSE p

\* p without its leading slashes
RECURSIVE DropLeadingSlashes(_)
DropLeadingSlashes(p) ==
    IF p # <<>> /\ p[1] = "/" THEN DropLeadingSlashes(Tail(p)) ELSE p

\* a and b joined by exactly one slash
JoinedByOneSlash(a, b) ==
    DropTrailingSlashes(a) \o <<"/">> \o DropLeadingSlashes(b)

\* a ends in at most one slash and b starts with at most one
AtMostOneSlashEach(a, b) ==
    /\ Len(a) - Len(DropTrailingSlashes(a)) <= 1
    /\ Len(b) - Len(DropLeadingSlashes(b)) <= 1

\* C18 (as stated): Expect joins a non-empty base path a and a non-empty
\* resolved path b with exactly one slash between them, however many slashes
\* a ends in and b starts with; when either is empty the result is the other.
C18_Original ==
    [][EncodeStep =>
         url'.path = IF url.path = <<>> THEN path
                     ELSE IF path = <<>> THEN url.path
                     ELSE JoinedByOneSlash(url.path, path)]_vars

\* C18 (amended): Expect joins a non-empty base path a ending in at most one
\* slash and a non-empty resolved path b starting with at most one slash with
\* exactly one slash between them; when either is empty the result is the
\* other.
C18_SingleSlashJoin ==
    [][EncodeStep =>
         /\ url.path = <<>> => url'.path = path
         /\ path = <<>> => url'.path = url.path
         /\ (url.path # <<>> /\ path # <<>> /\ AtMostOneSlashEach(url.path, path))
              => url'.path = JoinedByOneSlash(url.path, path)]_vars

\* the base path ends in a slash, the resolved path starts with one
C18_Witness ==
    /\ lastOp = "Expect"
    /\ ~failed
    /\ calls = 1
    /\ args.base.path = <<"/", "api", "/">>
    /\ path = <<"/", "u", "/", "7", "/", "{n}">>
    /\ url.path = <<"/", "api", "/", "u", "/", "7", "/", "{n}">>

\* C19: within one Expect the matchers are invoked only on a response the
\* transmit phase returned, and then every attached matcher exactly once in
\* the order of attachment; none is invoked when the chain has failed before
\* or during the transmission.
C19_MatchersAfterTransmit ==
    [][lastOp' = "Expect" =>
         /\ resp'.response # "nil" =>
               /\ resp'.matched = matchers
               /\ dials' + dos' = dials + dos + 1
         /\ resp'.response = "nil" => resp'.matched = <<>>
         /\ (failed \/ failed') => resp'.matched = <<>>
         /\ matchers' = matchers]_vars

\* two matchers ran, in the order attached, on the transport's response
C19_Witness ==
    /\ lastOp = "Expect"
    /\ ~failed
    /\ resp.kind = "response"
    /\ matchers = <<"m2", "m1">>
    /\ resp.matched = <<"m2", "m1">>
    /\ dos = 1

\* C20 (as stated): when Expect is reached with the chunked body set and a
\* protocol below HTTP/1.1, whatever the order of WithProto and WithChunked,
\* the chain is failed and nothing is transmitted; and a WithChunked call
\* that fails sets neither the body nor the body-setter label.
C20_ChunkedNeedsHTTP11 ==
    [][/\ (lastOp' = "Expect" /\ bodySetter = "WithChunked" /\ ~ProtoAtLeast(R, 1, 1))
            => /\ failed'
               /\ dos' = dos
               /\ dials' = dials
       /\ (~failed /\ lastOp' = "WithChunked" /\ failed') => BodyKept]_vars

\* the field WithForm writes for key k of the form values q: its first value
FieldOf(q, k) ==
    IF q[k] = <<>> THEN <<>> ELSE <<[t |-> "field", k |-> k, v |-> q[k][1]]>>

\* the URL-encoded form has grown by the values q and nothing else has been
\* written: the multipart buffer, the body, its length and its label are as
\* they were
FormGrownBy(q) ==
    /\ ~form'.nil
    /\ \A k \in Keys : form'.v[k] = form.v[k] \o q[k]
    /\ formbuf' = formbuf
    /\ ~multipart'
    /\ BodyKept

\* the key=value pairs of one key of the form, in the order of its values
FormPairsOf(k) == [j \in 1..Len(form.v[k]) |-> <<k, form.v[k][j]>>]

\* C21: with the multipart writer present, WithForm writes the fields of the
\* object behind what the buffer holds, in ascending key order; with the
\* writer absent, WithForm and WithFormField append to the URL-encoded form
\* and do not touch the body or the body-setter label, and Expect serializes
\* the form into the body.
C21_FormWrites ==
    [][/\ \A o \in FormObjects :
            (~failed /\ o.kind = "map" /\ Call("WithForm", WithForm(R, o)))
            => IF multipart
               THEN /\ formbuf' = formbuf \o FieldOf(o.q, "a") \o FieldOf(o.q, "b")
                    /\ form' = form
               ELSE FormGrownBy(o.q)
       /\ \A k \in Keys, v \in FieldValues :
            (~failed /\ ~multipart /\ Call("WithFormField", WithFormField(R, k, v)))
            => FormGrownBy([kk \in Keys |-> IF kk = k THEN <<Sprint(v)>> ELSE <<>>])
       /\ (EncodeStep /\ ~multipart /\ ~form.nil /\ bodySetter = "")
            => /\ bodySetter' = "WithForm or WithFormField"
               /\ body'.rd = "form"
               /\ body'.s = FormPairsOf("a") \o FormPairsOf("b")]_vars

\* WithForm has written the two fields of an object, a before b
C21_Witness ==
    /\ lastOp = "WithForm"
    /\ ~failed
    /\ multipart
    /\ Len(formbuf) = 2
    /\ formbuf[1].k = "a"
    /\ formbuf[2].k = "b"

\* C22: whenever the chain is not failed and the multipart writer exists, the
\* body-setter label is "WithMultipart" or "Expect".
C22_MultipartOwnsBody ==
    (~failed /\ multipart) => bodySetter \in {"WithMultipart", "Expect"}

\* a part has been written and Expect has installed the buffer
C22_Witness ==
    /\ ~failed
    /\ multipart
    /\ lastOp = "Expect"
    /\ bodySetter = "Expect"
    /\ Len(formbuf) = 2
    /\ formbuf[1].t = "file"

\* the pair k=v is kept for the encoding: as a value of the URL-encoded form
\* f or as a field of the multipart buffer buf
Kept(k, v, f, buf) ==
    \/ \E j \in 1..Len(f.v[k]) : f.v[k][j] = v
    \/ \E i \in 1..Len(buf) : buf[i] = [t |-> "field", k |-> k, v |-> v]

\* the pair k=v is in the body b, be it the multipart buffer buf or the
\* encoding of the form
InBody(k, v, b, buf) ==
    \/ /\ b.rd = "formbuf"
       /\ \E i \in 1..Len(buf) : buf[i] = [t |-> "field", k |-> k, v |-> v]
    \/ /\ b.rd = "form"
       /\ \E j \in 1..Len(b.s) : b.s[j] = <<k, v>>

\* C23 (as stated): no accepted form data is dropped: every pair, every value
\* of a multi-valued key included, that WithForm or WithFormField takes
\* without failing the chain is kept for the encoding, and every pair kept is
\* in the body once Expect has encoded it with the chain not failed.
C23_NoFormDataDropped ==
    [][/\ \A o \in FormObjects :
            (/\ ~failed
             /\ o.kind = "map"
             /\ Call("WithForm", WithForm(R, o))
             /\ ~failed')
            => \A k \in Keys : \A j \in 1..Len(o.q[k]) :
                  Kept(k, o.q[k][j], form', formbuf')
       /\ \A k \in Keys, v \in FieldValues :
            (/\ ~failed
             /\ Call("WithFormField", WithFormField(R, k, v))
             /\ ~failed')
            => Kept(k, Sprint(v), form', formbuf')
       /\ (EncodeStep /\ ~failed')
            => \A k \in Keys, v \in {"1", "2"} :
                  Kept(k, v, form, formbuf) => InBody(k, v, body', formbuf')]_vars

\* the path, the Content-Type header, the type-setter label, the body, the
\* body-setter label and the multipart state are as they were
FrameKept ==
    /\ path' = path
    /\ header'["Content-Type"] = header["Content-Type"]
    /\ typeSetter' = typeSetter
    /\ body' = body
    /\ bodySetter' = bodySetter
    /\ multipart' = multipart

\* C24 (as stated): a configuration call that marks the chain failed changes
\* nothing else: the path, the Content-Type header, the type-setter label,
\* the body, the body-setter label and the multipart state after the failing
\* call equal those before it.
C24_FailureAtomicity ==
    [][(~failed /\ failed' /\ lastOp' # "Expect") => FrameKept]_vars

\* C25 (as stated): an Expect that follows an Expect which left the chain
\* unfailed transmits a request with the same URL path and the same URL
\* scheme as the first.
C25_EncodingIdempotent ==
    [][(/\ lastOp = "Expect"
        /\ ~failed
        /\ lastOp' = "Expect"
        /\ dos' + dials' > dos + dials)
       => /\ url'.path = url.path
          /\ url'.scheme = url.scheme]_vars

====
